---------------------------- MODULE Spec2Model ----------------------------
(***************************************************************************)
(* Model of the classification core of the CI/CD pipeline generator:       *)
(*   runRuleDetector  -> classifyZeroShot -> mergeRuleAndHF ->              *)
(*   chooseTemplates  -> adaptiveExtract (deterministicFallback + override) *)
(* and of the runs (handleRepo) that drive it through files on disk.        *)
(*                                                                         *)
(* Conventions.  Confidences and scores are kept in hundredths (0.97 is     *)
(* 97); combined scores are kept in thousandths.  A JavaScript value that   *)
(* may be undefined/null is None (the empty tuple) or Some(v) (<<v>>); a    *)
(* string that is absent is "" (both are falsy where the code tests them).  *)
(* An object's keys are the tuple Object.keys would return.                 *)
(***************************************************************************)
EXTENDS Integers, Sequences, FiniteSets, TLC

VARIABLES
    (* one classify() pipeline, stage by stage *)
    pc,            \* position of the pipeline
    env,           \* process.env as read at module load: HF_TOKEN, HF_PARAM_MODEL
    features,      \* the parsed features document
    signal,        \* the second argument handed to adaptiveExtract
    rules,         \* result of runRuleDetector
    hfResult,      \* result of classifyZeroShot
    merged,        \* mergeRuleAndHF(...).merged
    chosen,        \* chooseTemplates(...)
    llm,           \* what the generative call of adaptiveExtract did
    values,        \* result of adaptiveExtract
    thrown,        \* TRUE when adaptiveExtract threw instead of returning
    (* the runs of handleRepo and what they share on disk *)
    runs,          \* per run: position, repository, what it read and computed
    outputs,       \* outputs/feature.json and outputs/values.json
    cache,         \* .cache/<key>.json: key -> the classifier result stored
    written        \* history: every (key, value) _writeCache has stored

pvars == <<pc, env, features, signal, rules, hfResult, merged, chosen, llm, values, thrown>>

rvars == <<runs, outputs, cache, written>>

vars == <<pvars, rvars>>

-----------------------------------------------------------------------------
(* Bounds of the model *)

MaxFiles == 2      \* most entries of features.detectedFiles

-----------------------------------------------------------------------------
(* JavaScript values *)

None == <<>>
Some(v) == <<v>>
IsSome(o) == o # <<>>
Get(o) == o[1]
\* a || b
OrElse(o, d) == IF IsSome(o) THEN Get(o) ELSE d
\* a?.f || d  for an optional object a and an optional field f
Field(o, f, d) == IF IsSome(o) /\ IsSome(Get(o)[f]) THEN Get(Get(o)[f]) ELSE d

Range(s) == { s[i] : i \in DOMAIN s }
\* Array.prototype.includes
Includes(arr, x) == \E i \in DOMAIN arr : arr[i] = x

\* String.prototype.toLowerCase on the strings the model draws from
toLowerCase(s) ==
    CASE s = "Dockerfile" -> "dockerfile"
      [] s = "JavaScript" -> "javascript"
      [] s = "TypeScript" -> "typescript"
      [] s = "Python"     -> "python"
      [] s = "Java"       -> "java"
      [] s = "Go"         -> "go"
      [] s = "HTML"       -> "html"
      [] s = "Docker-CI"  -> "docker-ci"
      [] OTHER            -> s

\* The keywords the code searches for that occur inside the (lower-case) string s.
Substrings(s) ==
    {s} \cup
    ( CASE s = "javascript"       -> {"java"}
        [] s = "dockerfile"       -> {"docker"}
        [] s = "docker-ci"        -> {"docker", "ci"}
        [] s = "node-ci"          -> {"node", "ci"}
        [] s = "python-ci"        -> {"python", "ci"}
        [] s = "java-ci"          -> {"java", "ci"}
        [] s = "ci-workflow"      -> {"ci", "workflow"}
        [] s = "django"           -> {"go"}
        [] s = "go.mod"           -> {"go"}
        [] s = "build.gradle"     -> {"gradle"}
        [] s = "build.gradle.kts" -> {"build.gradle", "gradle"}
        [] s = "spring boot"      -> {"spring"}
        [] OTHER                  -> {} )

\* String.prototype.includes
StrIncludes(s, sub) == s # "" /\ sub \in Substrings(s)

\* arr.map(f => f.toLowerCase())
LowerAll(arr) == [ i \in DOMAIN arr |-> toLowerCase(arr[i]) ]

\* cond ? [x] : []
When(cond, x) == IF cond THEN <<x>> ELSE <<>>

-----------------------------------------------------------------------------
(* Rule Engine: runRuleDetector *)

Candidate(label, conf, reason) == [label |-> label, confidence |-> conf, reason |-> reason]

\* The loop over derived.recommended_templates: one emission at most per template.
RECURSIVE derivedHints(_)
derivedHints(recommended) ==
    IF recommended = <<>> THEN <<>>
    ELSE LET t == toLowerCase(Head(recommended))
             r == "derived recommended template"
         IN  ( IF StrIncludes(t, "docker") THEN <<Candidate("docker", 80, r)>>
               ELSE IF StrIncludes(t, "node") THEN <<Candidate("node", 80, r)>>
               ELSE IF StrIncludes(t, "python") THEN <<Candidate("python", 80, r)>>
               ELSE IF StrIncludes(t, "java") THEN <<Candidate("java", 80, r)>>
               ELSE IF StrIncludes(t, "ci") \/ StrIncludes(t, "workflow")
                    THEN <<Candidate("generic", 50, r)>>
               ELSE <<>> )
             \o derivedHints(Tail(recommended))

\* composition.languages || features.languages || {}   (its keys)
languagesOf(f) ==
    IF IsSome(f.composition) /\ IsSome(Get(f.composition).languages)
    THEN Get(Get(f.composition).languages)
    ELSE OrElse(f.languages, <<>>)

\* (comp.dominant_language || features.dominant_language || keys[0] || "").toLowerCase()
dominantOf(f) ==
    LET langs == languagesOf(f)
        c == IF IsSome(f.composition) THEN Get(f.composition).dominant_language ELSE ""
    IN  toLowerCase( IF c # "" THEN c
                     ELSE IF f.dominant_language # "" THEN f.dominant_language
                     ELSE IF langs # <<>> THEN langs[1]
                     ELSE "" )

\* [...detectedFiles, ...keys(comp.file_types_count), ...package_managers], lower-cased
detectedFilesOf(f) ==
    LowerAll( OrElse(f.detectedFiles, <<>>)
              \o Field(f.composition, "file_types_count", <<>>)
              \o Field(f.build_and_dependency, "package_managers", <<>>) )

\* (buildDep.frameworks || features.frameworks || []).map(toLowerCase)
frameworksOf(f) ==
    LowerAll( IF IsSome(f.build_and_dependency) /\ IsSome(Get(f.build_and_dependency).frameworks)
              THEN Get(Get(f.build_and_dependency).frameworks)
              ELSE OrElse(f.frameworks, <<>>) )

hasDockerfileOf(f) ==
    \/ (IsSome(f.containerization_and_deployment)
          /\ Get(f.containerization_and_deployment).has_dockerfile)
    \/ Includes(detectedFilesOf(f), "dockerfile")
    \/ \E i \in DOMAIN languagesOf(f) : toLowerCase(languagesOf(f)[i]) = "dockerfile"

\* Mutant of javaDescriptorRule: the descriptor rule ignores package.json.
javaDescriptorRule_Flat(descriptor, packageJson) ==
    When(descriptor, Candidate("java", 95, "Java build descriptor"))

\* if (hasPom || hasGradle) { if (!hasPackageJson) push("java", 0.95, ..) else push("java", 0.6, ..) }
javaDescriptorRule(descriptor, packageJson) ==
    IF ~descriptor THEN <<>>
    ELSE IF ~packageJson THEN <<Candidate("java", 95, "Java build descriptor present")>>
    ELSE <<Candidate("java", 60, "Java descriptor present but JS indicators stronger")>>

\* Every push(...) of the rule table, in the order the code makes them.
rawCandidates(f) ==
    LET detectedFiles == detectedFilesOf(f)
        frameworks == frameworksOf(f)
        dominant == dominantOf(f)
        hasPackageJson == Includes(detectedFiles, "package.json")
        hasRequirements == Includes(detectedFiles, "requirements.txt")
        hasPom == Includes(detectedFiles, "pom.xml")
        hasGradle == Includes(detectedFiles, "build.gradle")
                        \/ Includes(detectedFiles, "build.gradle.kts")
        emitted ==
            When(hasPackageJson, Candidate("node", 97, "package.json present"))
         \o When(hasRequirements, Candidate("python", 97, "requirements.txt present"))
         \o javaDescriptorRule(hasPom \/ hasGradle, hasPackageJson)
         \o When(Includes(detectedFiles, "go.mod"), Candidate("go", 95, "go.mod present"))
         \o When(Includes(detectedFiles, "main.tf"),
                 Candidate("terraform", 90, "main.tf present (Terraform)"))
         \o When(hasDockerfileOf(f), Candidate("docker", 99, "Dockerfile present"))
         \o When(\E i \in DOMAIN frameworks :
                     \/ StrIncludes(frameworks[i], "flask")
                     \/ StrIncludes(frameworks[i], "django")
                     \/ StrIncludes(frameworks[i], "fastapi"),
                 Candidate("python", 90, "Python framework detected"))
         \o When(Includes(frameworks, "express") \/ Includes(frameworks, "next.js")
                     \/ Includes(frameworks, "react"),
                 Candidate("node", 90, "Node.js ecosystem framework detected"))
         \o When(Includes(frameworks, "spring") \/ Includes(frameworks, "spring boot"),
                 Candidate("java", 90, "Spring framework detected"))
         \o ( IF dominant = "" THEN <<>>
              ELSE IF StrIncludes(dominant, "javascript")
                   THEN <<Candidate("node", 70, "dominant language")>>
              ELSE IF StrIncludes(dominant, "python")
                   THEN <<Candidate("python", 70, "dominant language")>>
              ELSE IF StrIncludes(dominant, "java")
                   THEN <<Candidate("java", 60, "dominant language")>>
              ELSE IF StrIncludes(dominant, "go")
                   THEN <<Candidate("go", 60, "dominant language")>>
              ELSE IF StrIncludes(dominant, "dockerfile")
                   THEN <<Candidate("docker", 70, "dominant language is Dockerfile")>>
              ELSE <<>> )
         \o derivedHints(Field(f.derived, "recommended_templates", <<>>))
         \o When(Len(languagesOf(f)) > 1, Candidate("polyglot", 50, "multiple languages detected"))
    IN  IF emitted = <<>>
        THEN <<Candidate("generic", 30, "no strong evidence; fallback to generic")>>
        ELSE emitted

\* Mutant of dedupeByLabel: the raw emissions are returned as they were pushed.
dedupeByLabel_Skipped(raw, map) == map \o raw

\* candidatesMap after the loop: Map keeps a key at the position of its first set().
RECURSIVE dedupeByLabel(_, _)
dedupeByLabel(raw, map) ==
    IF raw = <<>> THEN map
    ELSE LET c == Head(raw)
             at == { i \in DOMAIN map : map[i].label = c.label }
         IN  dedupeByLabel(Tail(raw),
                 IF at = {} THEN Append(map, c)
                 ELSE LET i == CHOOSE j \in at : TRUE
                      IN  IF c.confidence > map[i].confidence
                          THEN [map EXCEPT ![i] = c]
                          ELSE map)

\* Array.prototype.sort((a, b) => b.key - a.key): stable, descending by field key.
RECURSIVE insertDesc(_, _, _)
insertDesc(sorted, x, key) ==
    IF sorted = <<>> THEN <<x>>
    ELSE IF Head(sorted)[key] >= x[key]
         THEN <<Head(sorted)>> \o insertDesc(Tail(sorted), x, key)
         ELSE <<x>> \o sorted

RECURSIVE sortDesc(_, _)
sortDesc(arr, key) ==
    IF arr = <<>> THEN <<>>
    ELSE insertDesc(sortDesc(SubSeq(arr, 1, Len(arr) - 1), key), arr[Len(arr)], key)

\* The evidence summary, kept as its parts (the text is their join).
summaryOf(f) ==
    [ repo |-> f.repo,
      dominant |-> dominantOf(f),
      languages |-> languagesOf(f),
      frameworks |-> frameworksOf(f),
      hasDockerfile |-> hasDockerfileOf(f),
      recommended |-> Field(f.derived, "recommended_templates", <<>>),
      files |-> SubSeq(detectedFilesOf(f), 1,
                       IF Len(detectedFilesOf(f)) < 12 THEN Len(detectedFilesOf(f)) ELSE 12) ]

runRuleDetector(f) ==
    [ candidates |-> sortDesc(dedupeByLabel(rawCandidates(f), <<>>), "confidence"),
      summary |-> summaryOf(f),
      detectedFiles |-> detectedFilesOf(f),
      languages |-> languagesOf(f) ]

-----------------------------------------------------------------------------
(* Signal Merger: mergeRuleAndHF, chooseTemplates *)

\* hfMap: label -> score, a key staying where it was first set; a score that is
\* missing (no scores list, or a shorter one) or 0 reads as 0.
RECURSIVE hfMapOf(_, _, _, _)
hfMapOf(labels, scores, i, map) ==
    IF i > Len(labels) THEN map
    ELSE LET score == IF i \in DOMAIN scores THEN scores[i] ELSE 0
             at == { j \in DOMAIN map : map[j].label = labels[i] }
         IN  hfMapOf(labels, scores, i + 1,
                 IF at = {} THEN Append(map, [label |-> labels[i], score |-> score])
                 ELSE [map EXCEPT ![CHOOSE j \in at : TRUE].score = score])

\* Array.from(new Set(arr)): first occurrences, in order
RECURSIVE unique(_, _)
unique(arr, acc) ==
    IF arr = <<>> THEN acc
    ELSE unique(Tail(arr), IF Includes(acc, Head(arr)) THEN acc ELSE Append(acc, Head(arr)))

\* ruleCandidates.find(c => c.label === label)?.confidence || 0
ruleOf(ruleCandidates, label) ==
    LET at == { i \in DOMAIN ruleCandidates : ruleCandidates[i].label = label }
    IN  IF at = {} THEN 0
        ELSE ruleCandidates[CHOOSE i \in at : \A j \in at : i <= j].confidence

hfOf(hfMap, label) ==
    LET at == { i \in DOMAIN hfMap : hfMap[i].label = label }
    IN  IF at = {} THEN 0 ELSE hfMap[CHOOSE i \in at : TRUE].score

\* Mutant of combineRuleAndHF: the two signals are added, not weighted.
combineRuleAndHF_Sum(ruleCandidates, hfRes) ==
    LET hfMap == hfMapOf(OrElse(hfRes.labels, <<>>), OrElse(hfRes.scores, <<>>), 1, <<>>)
        labels == unique([i \in DOMAIN ruleCandidates |-> ruleCandidates[i].label]
                         \o [i \in DOMAIN hfMap |-> hfMap[i].label], <<>>)
    IN  sortDesc([ i \in DOMAIN labels |->
                     LET rule == ruleOf(ruleCandidates, labels[i])
                         hf == hfOf(hfMap, labels[i])
                     IN  [ label |-> labels[i], rule |-> rule, hf |-> hf,
                           combined |-> 10 * rule + 10 * hf,
                           reasons |-> <<"rule=", "hf=">> ] ],
                 "combined")

\* The branch taken when the best rule is below the cutoff: 80% rule, 20% classifier.
\* combined is in thousandths: rule * 0.8 + hf * 0.2 = (8 * rule + 2 * hf) / 1000.
combineRuleAndHF(ruleCandidates, hfRes) ==
    LET hfMap == hfMapOf(OrElse(hfRes.labels, <<>>), OrElse(hfRes.scores, <<>>), 1, <<>>)
        labels == unique([i \in DOMAIN ruleCandidates |-> ruleCandidates[i].label]
                         \o [i \in DOMAIN hfMap |-> hfMap[i].label], <<>>)
    IN  sortDesc([ i \in DOMAIN labels |->
                     LET rule == ruleOf(ruleCandidates, labels[i])
                         hf == hfOf(hfMap, labels[i])
                     IN  [ label |-> labels[i], rule |-> rule, hf |-> hf,
                           combined |-> 8 * rule + 2 * hf,
                           reasons |-> <<"rule=", "hf=">> ] ],
                 "combined")

\* Mutant of mergeRuleAndHF: the cutoff is strict, so a top confidence of exactly
\* 0.97 is merged with the classifier.
mergeRuleAndHF_StrictCutoff(ruleCandidates, hfRes) ==
    IF ruleCandidates = <<>> THEN <<>>
    ELSE LET sortedByRule == sortDesc(ruleCandidates, "confidence")
             top == sortedByRule[1]
         IN  IF top.confidence > 97
             THEN [ i \in DOMAIN sortedByRule |->
                      [ label |-> sortedByRule[i].label,
                        rule |-> sortedByRule[i].confidence,
                        hf |-> 0,
                        combined |-> 10 * sortedByRule[i].confidence,
                        reasons |-> <<"rule-dominant">> ] ]
             ELSE combineRuleAndHF(ruleCandidates, hfRes)

\* Mutant of mergeRuleAndHF: the rule-dominant cutoff is missing.
mergeRuleAndHF_NoCutoff(ruleCandidates, hfRes) ==
    IF ruleCandidates = <<>> THEN <<>> ELSE combineRuleAndHF(ruleCandidates, hfRes)

\* mergeRuleAndHF(ruleCandidates, hfRes).merged
mergeRuleAndHF(ruleCandidates, hfRes) ==
    IF ruleCandidates = <<>> THEN <<>>
    ELSE LET sortedByRule == sortDesc(ruleCandidates, "confidence")
             top == sortedByRule[1]
         IN  IF top.confidence >= 97
             THEN [ i \in DOMAIN sortedByRule |->
                      [ label |-> sortedByRule[i].label,
                        rule |-> sortedByRule[i].confidence,
                        hf |-> 0,
                        combined |-> 10 * sortedByRule[i].confidence,
                        reasons |-> <<"rule-dominant">> ] ]
             ELSE combineRuleAndHF(ruleCandidates, hfRes)

\* Mutant of chooseTemplates: every entry at or above the threshold is accepted
\* (the threshold is in hundredths, combined in thousandths).
chooseTemplates_Accepting(mergedList, threshold) ==
    LET accepted == SelectSeq(mergedList, LAMBDA m : m.combined >= 10 * threshold)
    IN  IF mergedList = <<>> THEN <<"generic">>
        ELSE IF accepted # <<>> THEN [ i \in DOMAIN accepted |-> accepted[i].label ]
        ELSE <<mergedList[1].label>>

\* Mutant of chooseTemplates: the last entry of the merged list is chosen.
chooseTemplates_Last(mergedList, threshold) ==
    IF mergedList = <<>> THEN <<"generic">> ELSE <<mergedList[Len(mergedList)].label>>

\* chooseTemplates(merged, _threshold): a missing list and an empty one are both <<>>.
chooseTemplates(mergedList, threshold) ==
    IF mergedList = <<>> THEN <<"generic">> ELSE <<mergedList[1].label>>

-----------------------------------------------------------------------------
(* Parameter Extractor: deterministicFallback, adaptiveExtract *)

EmptyObject == <<>>

\* The fields of a parameter document (the keys of `base`).
ParameterFields ==
    { "project_type", "language", "package_manager", "lint_command", "test_command",
      "build_command", "artifact_path", "matrix", "caching", "secrets_required",
      "deployment", "container", "triggers", "paths_filters" }

baseDocument(f) ==
    [ project_type |-> "generic",
      language |-> IF dominantOf(f) # "" THEN dominantOf(f) ELSE "unknown",
      package_manager |-> None,
      lint_command |-> "",
      test_command |-> "",
      build_command |-> "",
      artifact_path |-> "",
      matrix |-> EmptyObject,
      caching |-> EmptyObject,
      secrets_required |-> <<>>,
      deployment |-> [enabled |-> FALSE, provider |-> "", config_file |-> "", mode |-> ""],
      container |-> [ enabled |-> FALSE, image |-> "", registry |-> "",
                      platforms |-> <<"linux/amd64">>, cache |-> FALSE, tags |-> <<>>,
                      provenance |-> FALSE, sbom |-> FALSE, sign |-> FALSE ],
      triggers |-> [ branches |-> << IF IsSome(f.metadata) /\ Get(f.metadata).default_branch # ""
                                     THEN Get(f.metadata).default_branch ELSE "main" >>,
                     push |-> TRUE, pull_request |-> TRUE, release_on_tag |-> TRUE ],
      paths_filters |-> EmptyObject ]

\* { ...obj, ...over }
Spread(obj, over) ==
    [ k \in DOMAIN obj \cup DOMAIN over |-> IF k \in DOMAIN over THEN over[k] ELSE obj[k] ]

dockerOnlyDocument(base) ==
    Spread(base,
        [ project_type |-> "docker", language |-> "docker",
          build_command |-> "docker build -t app .", test_command |-> "",
          container |-> Spread(base.container,
              [ enabled |-> TRUE, image |-> "ghcr.io/OWNER/REPO", registry |-> "ghcr.io",
                platforms |-> <<"linux/amd64">>, cache |-> TRUE, tags |-> <<"latest">> ]) ])

\* `${detectedRegistry}/${repoId}` for the repository names the model draws from
imageName(registry, repoId) ==
    CASE repoId = "acme/web" -> "docker.io/acme/web"
      [] repoId = "acme/api" -> "docker.io/acme/api"
      [] OTHER               -> "docker.io/OWNER/REPO"

nodeDocument(f, base) ==
    LET nodeMeta == Field(f.build_and_dependency, "node_metadata",
                          [nodeVersion |-> "", scripts |-> None])
        scripts == OrElse(nodeMeta.scripts, {})
        detectedRegistry == "docker.io"
        repoId == IF f.repo # "" THEN f.repo ELSE "OWNER/REPO"
        out == Spread(base,
            [ project_type |-> "node", language |-> "js", package_manager |-> Some("npm"),
              node_version |-> IF nodeMeta.nodeVersion # "" THEN nodeMeta.nodeVersion ELSE "18.x",
              lint_command |-> IF "lint" \in scripts THEN "npm run lint"
                               ELSE "npm run lint || echo 'No lint script'",
              test_command |-> IF "test" \in scripts THEN "npm test"
                               ELSE "npm test || echo 'No tests found'",
              build_command |-> IF "build" \in scripts THEN "npm run build"
                                ELSE "npm run build || echo 'No build script'",
              artifact_path |-> IF "build" \in scripts THEN "dist/" ELSE "",
              matrix |-> [node_versions |-> <<"16.x", "18.x", "20.x">>],
              caching |-> [ paths |-> <<"~/.npm">>,
                            key |-> "npm-cache-${{ hashFiles('**/package-lock.json') }}" ] ])
    IN  IF hasDockerfileOf(f)
        THEN Spread(out,
            [ container |-> Spread(out.container,
                  [ enabled |-> TRUE, image |-> imageName(detectedRegistry, repoId),
                    registry |-> detectedRegistry, platforms |-> <<"linux/amd64">>,
                    cache |-> TRUE ]),
              secrets_required |->
                  IF StrIncludes(detectedRegistry, "ghcr.io")
                  THEN out.secrets_required \o <<"GITHUB_TOKEN">>
                  ELSE out.secrets_required \o <<"DOCKER_USERNAME", "DOCKER_PASSWORD">> ])
        ELSE out

pythonDocument(f, base) ==
    LET pythonMeta == Field(f.build_and_dependency, "python_metadata", [has_pytest |-> FALSE])
    IN  Spread(base,
            [ project_type |-> "python", language |-> "py", package_manager |-> Some("pip"),
              lint_command |-> "flake8 . || echo 'No flake8 config'",
              test_command |-> IF pythonMeta.has_pytest THEN "pytest"
                               ELSE "pytest || python -m unittest",
              build_command |-> "python -m build || python setup.py sdist",
              artifact_path |-> "dist/",
              matrix |-> [python_versions |-> <<"3.9", "3.10", "3.11">>],
              caching |-> [ paths |-> <<"~/.cache/pip">>,
                            key |-> "pip-cache-${{ hashFiles('**/requirements.txt') }}" ] ])

javaDocument(f, base) ==
    LET detectedFiles == detectedFilesOf(f)
        hasPom == Includes(detectedFiles, "pom.xml")
        hasGradle == Includes(detectedFiles, "build.gradle")
                        \/ Includes(detectedFiles, "build.gradle.kts")
    IN  Spread(base,
            [ project_type |-> "java", language |-> "java",
              package_manager |-> IF hasPom THEN Some("maven")
                                  ELSE IF hasGradle THEN Some("gradle") ELSE None,
              build_command |-> IF hasPom THEN "mvn -B -DskipTests package"
                                ELSE IF hasGradle THEN "./gradlew build --no-daemon -x test"
                                ELSE "javac -d out $(find src -name '*.java' 2>/dev/null)",
              test_command |-> IF hasPom THEN "mvn test"
                               ELSE IF hasGradle THEN "./gradlew test" ELSE "",
              artifact_path |-> IF hasPom THEN "target/"
                                ELSE IF hasGradle THEN "build/" ELSE "" ])

\* Mutant of deterministicFallback: the python branch is tested before the node
\* branch.
deterministicFallback_PythonFirst(f, chosenTemplates) ==
    LET dominant == dominantOf(f)
        detectedFiles == detectedFilesOf(f)
        base == baseDocument(f)
        isNode == Includes(chosenTemplates, "node") \/ StrIncludes(dominant, "javascript")
                     \/ Includes(detectedFiles, "package.json")
        isPython == Includes(chosenTemplates, "python") \/ StrIncludes(dominant, "python")
                       \/ Includes(detectedFiles, "requirements.txt")
        isJava == Includes(chosenTemplates, "java") \/ Includes(detectedFiles, "pom.xml")
                     \/ Includes(detectedFiles, "build.gradle")
                     \/ Includes(detectedFiles, "build.gradle.kts")
    IN  IF Includes(chosenTemplates, "docker") /\ ~isNode /\ ~isPython /\ ~isJava
        THEN dockerOnlyDocument(base)
        ELSE IF isPython THEN pythonDocument(f, base)
        ELSE IF isNode THEN nodeDocument(f, base)
        ELSE IF isJava THEN javaDocument(f, base)
        ELSE base

\* Mutant of deterministicFallback: a chosen docker label short-circuits before
\* the language ecosystems are looked at.
deterministicFallback_DockerFirst(f, chosenTemplates) ==
    LET dominant == dominantOf(f)
        detectedFiles == detectedFilesOf(f)
        base == baseDocument(f)
        isNode == Includes(chosenTemplates, "node") \/ StrIncludes(dominant, "javascript")
                     \/ Includes(detectedFiles, "package.json")
        isPython == Includes(chosenTemplates, "python") \/ StrIncludes(dominant, "python")
                       \/ Includes(detectedFiles, "requirements.txt")
        isJava == Includes(chosenTemplates, "java") \/ Includes(detectedFiles, "pom.xml")
                     \/ Includes(detectedFiles, "build.gradle")
                     \/ Includes(detectedFiles, "build.gradle.kts")
    IN  IF Includes(chosenTemplates, "docker") THEN dockerOnlyDocument(base)
        ELSE IF isNode THEN nodeDocument(f, base)
        ELSE IF isPython THEN pythonDocument(f, base)
        ELSE IF isJava THEN javaDocument(f, base)
        ELSE base

\* deterministicFallback(features, chosenTemplates), chosenTemplates already a list
deterministicFallback(f, chosenTemplates) ==
    LET dominant == dominantOf(f)
        detectedFiles == detectedFilesOf(f)
        base == baseDocument(f)
        isNodeHint == StrIncludes(dominant, "javascript")
                         \/ Includes(detectedFiles, "package.json")
        isPythonHint == StrIncludes(dominant, "python")
                           \/ Includes(detectedFiles, "requirements.txt")
        isJavaPom == Includes(detectedFiles, "pom.xml")
                        \/ Includes(detectedFiles, "build.gradle")
                        \/ Includes(detectedFiles, "build.gradle.kts")
        isNode == Includes(chosenTemplates, "node") \/ isNodeHint
        isPython == Includes(chosenTemplates, "python") \/ isPythonHint
        isJava == Includes(chosenTemplates, "java") \/ isJavaPom
        isDockerChosen == Includes(chosenTemplates, "docker")
    IN  IF isDockerChosen /\ ~isNode /\ ~isPython /\ ~isJava THEN dockerOnlyDocument(base)
        ELSE IF isNode THEN nodeDocument(f, base)
        ELSE IF isPython THEN pythonDocument(f, base)
        ELSE IF isJava THEN javaDocument(f, base)
        ELSE base

\* mergedSuggestion.chosen || [], and a string wrapped into a list
chosenTemplatesOf(mergedSuggestion) ==
    CASE mergedSuggestion.chosen.kind = "array"  -> mergedSuggestion.chosen.arr
      [] mergedSuggestion.chosen.kind = "string" ->
             IF mergedSuggestion.chosen.str = "" THEN <<>> ELSE <<mergedSuggestion.chosen.str>>
      [] OTHER -> <<>>

\* Mutant of overrideMerge: a full overwrite, { ...base, ...parsed }.
overrideMerge_Shallow(base, parsed) == Spread(base, parsed)

\* { ...base, ...parsed, container: {...base.container, ...(parsed.container || {})},
\*   triggers: {...base.triggers, ...(parsed.triggers || {})} }
overrideMerge(base, parsed) ==
    Spread(Spread(base, parsed),
        [ container |-> Spread(base.container,
              IF "container" \in DOMAIN parsed THEN parsed.container ELSE EmptyObject),
          triggers |-> Spread(base.triggers,
              IF "triggers" \in DOMAIN parsed THEN parsed.triggers ELSE EmptyObject) ])

\* Mutant of paramClientConfigured: a default model stands in for HF_PARAM_MODEL,
\* so the token alone configures the client.
paramClientConfigured_TokenOnly(e) == e.HF_TOKEN

\* hf of paramExtractor.js: a client exists only with both settings
paramClientConfigured(e) == e.HF_TOKEN /\ e.HF_PARAM_MODEL

\* Mutant of extractionFailed: the catch block returns an empty document.
extractionFailed_Empty(base) == [thrown |-> FALSE, value |-> EmptyObject]

\* Mutant of extractionFailed: the catch block rethrows.
extractionFailed_Rethrows(base) == [thrown |-> TRUE, value |-> base]

\* The catch block of adaptiveExtract: warn and return the deterministic document.
extractionFailed(base) == [thrown |-> FALSE, value |-> base]

-----------------------------------------------------------------------------
(* The inputs the model draws from *)

FileNames == <<"package.json", "requirements.txt", "pom.xml", "Dockerfile", "build.gradle">>

\* the sub-sequences of FileNames with at most n entries
RECURSIVE subSeqs(_, _)
subSeqs(from, n) ==
    IF n = 0 \/ from > Len(FileNames) THEN {<<>>}
    ELSE subSeqs(from + 1, n)
         \cup { <<FileNames[from]>> \o t : t \in subSeqs(from + 1, n - 1) }

DetectedFileLists == { IF fs = <<>> THEN None ELSE Some(fs) : fs \in subSeqs(1, MaxFiles) }

\* composition, with the top-level fields the code falls back to when it is missing
Compositions ==
    { [composition |-> None, languages |-> None, dominant_language |-> ""],
      [composition |-> None, languages |-> Some(<<"Go">>), dominant_language |-> "Java"],
      [composition |-> Some([languages |-> Some(<<"Python">>), dominant_language |-> "Python",
                             file_types_count |-> None]),
       languages |-> None, dominant_language |-> ""],
      [composition |-> Some([languages |-> Some(<<"JavaScript", "Dockerfile">>),
                             dominant_language |-> "JavaScript",
                             file_types_count |-> Some(<<"pom.xml">>)]),
       languages |-> None, dominant_language |-> ""],
      [composition |-> Some([languages |-> Some(<<"HTML", "Java">>), dominant_language |-> "",
                             file_types_count |-> None]),
       languages |-> Some(<<"Python">>), dominant_language |-> "Python"] }

\* build_and_dependency, with the top-level frameworks the code falls back to
BuildDeps ==
    { [build_and_dependency |-> None, frameworks |-> None],
      [build_and_dependency |-> None, frameworks |-> Some(<<"spring">>)],
      [build_and_dependency |->
           Some([ frameworks |-> Some(<<"express">>),
                  package_managers |-> Some(<<"package.json">>),
                  node_metadata |-> Some([nodeVersion |-> "20.x",
                                          scripts |-> Some({"build", "test"})]),
                  python_metadata |-> None ]),
       frameworks |-> None],
      [build_and_dependency |->
           Some([ frameworks |-> None, package_managers |-> None,
                  node_metadata |-> None,
                  python_metadata |-> Some([has_pytest |-> TRUE]) ]),
       frameworks |-> Some(<<"flask">>)] }

Deriveds ==
    { None,
      Some([recommended_templates |-> Some(<<"Docker-CI">>)]),
      Some([recommended_templates |-> Some(<<"ci-workflow", "java-ci">>)]) }

\* containerization_and_deployment, with the repository's identity
Deployments ==
    { [containerization_and_deployment |-> None, repo |-> "", metadata |-> None],
      [containerization_and_deployment |-> Some([has_dockerfile |-> TRUE,
                                                 registry_reference |-> "ghcr.io",
                                                 deployment_configs |-> <<>>]),
       repo |-> "acme/web", metadata |-> Some([default_branch |-> "develop"])],
      [containerization_and_deployment |-> Some([has_dockerfile |-> FALSE,
                                                 registry_reference |-> "",
                                                 deployment_configs |-> <<"vercel.json">>]),
       repo |-> "acme/api", metadata |-> Some([default_branch |-> ""])] }

FeaturesDocument(files, comp, bd, der, dep) ==
    [ repo |-> dep.repo,
      detectedFiles |-> files,
      composition |-> comp.composition,
      languages |-> comp.languages,
      dominant_language |-> comp.dominant_language,
      build_and_dependency |-> bd.build_and_dependency,
      frameworks |-> bd.frameworks,
      derived |-> der,
      containerization_and_deployment |-> dep.containerization_and_deployment,
      metadata |-> dep.metadata ]

FeaturesDocuments ==
    { FeaturesDocument(files, comp, bd, der, dep) :
        files \in DetectedFileLists, comp \in Compositions, bd \in BuildDeps,
        der \in Deriveds, dep \in Deployments }

\* What classifyZeroShot may hand back: nothing, empty lists, one label ranked first
\* with score 1, labels without scores, fewer scores than labels.
HFLabels == {"node", "docker"}

ClassifierResults ==
    { [model |-> "heuristic-fallback", labels |-> Some(<<>>), scores |-> Some(<<>>)],
      [model |-> "facebook/bart-large-mnli", labels |-> Some(<<"python", "node">>),
       scores |-> None],
      [model |-> "facebook/bart-large-mnli", labels |-> Some(<<"docker", "generic">>),
       scores |-> Some(<<50>>)] }
    \cup { [model |-> "facebook/bart-large-mnli", labels |-> Some(<<l>>),
            scores |-> Some(<<100>>)] : l \in HFLabels }

NoClassifierResult == [model |-> "", labels |-> None, scores |-> None]

\* The second argument of a direct call of adaptiveExtract.
Chosen(kind, str, arr) == [kind |-> kind, str |-> str, arr |-> arr]

Signals ==
    { [chosen |-> Chosen("undefined", "", <<>>)],
      [chosen |-> Chosen("string", "docker", <<>>)],
      [chosen |-> Chosen("array", "", <<"java", "docker">>)],
      [chosen |-> Chosen("array", "", <<>>)] }

\* The objects JSON.parse may return for the generative model's reply.
Overrides ==
    { [build_command |-> "make", extra |-> "x"],
      [container |-> [registry |-> "ghcr.io"], triggers |-> [push |-> FALSE]],
      [container |-> None, triggers |-> None, deployment |-> [enabled |-> TRUE]] }

Envs == [HF_TOKEN : BOOLEAN, HF_PARAM_MODEL : BOOLEAN]

-----------------------------------------------------------------------------
(* Classifier adapter: _hash, heuristicLabels, the normalisation of the reply *)

DefaultModel == "facebook/bart-large-mnli"

\* run.js: Array.from(new Set([...candidates.map(c => c.label), "node", ...]))
candidateLabelsOf(candidates) ==
    unique([ i \in DOMAIN candidates |-> candidates[i].label ]
           \o <<"node", "python", "java", "docker", "terraform", "monorepo", "generic">>,
           <<>>)

\* The request a result is cached for.
Request(summaryText, candidateLabels, model) ==
    [summaryText |-> summaryText, candidateLabels |-> candidateLabels, model |-> model]

\* sha256(JSON.stringify(x)).slice(0, 16): the serialisation lists the three parts
\* in order; two requests get one key exactly when their serialisations are equal
\* (collisions of the truncated digest are beyond the model).
_hash(x) == <<"sha256", x.summaryText, x.candidateLabels, x.model>>

\* The pieces of the lower-cased summary text that come from the features.
textTokens(summary) ==
    { toLowerCase(IF summary.repo = "" THEN "unknown" ELSE summary.repo),
      toLowerCase(IF summary.dominant = "" THEN "unknown" ELSE summary.dominant),
      IF summary.languages = <<>> THEN "none" ELSE "",
      IF summary.frameworks = <<>> THEN "none" ELSE "",
      IF summary.recommended = <<>> THEN "none" ELSE "",
      IF summary.files = <<>> THEN "none" ELSE "",
      IF summary.hasDockerfile THEN "yes" ELSE "no" }
    \cup Range(LowerAll(summary.languages)) \cup Range(LowerAll(summary.frameworks))
    \cup Range(LowerAll(summary.recommended)) \cup Range(LowerAll(summary.files))

\* The line titles of the summary, lower-cased; "has dockerfile" is always there.
SkeletonWords ==
    { "repo", "dominant", "language", "languages", "frameworks", "has", "dockerfile",
      "recommended", "templates", "detected", "files", "sample" }

\* text.includes(kw), and a regular expression alternative kw matching the text
textIncludes(summary, kw) ==
    \/ kw \in {"docker", "dockerfile"}
    \/ \E t \in textTokens(summary) : StrIncludes(t, kw)

\* The words of the lower-cased string s, as \b delimits them.
WholeWords(s) ==
    CASE s = "docker-ci"        -> {"docker", "ci"}
      [] s = "node-ci"          -> {"node", "ci"}
      [] s = "python-ci"        -> {"python", "ci"}
      [] s = "java-ci"          -> {"java", "ci"}
      [] s = "ci-workflow"      -> {"ci", "workflow"}
      [] s = "package.json"     -> {"package", "json"}
      [] s = "requirements.txt" -> {"requirements", "txt"}
      [] s = "pom.xml"          -> {"pom", "xml"}
      [] s = "build.gradle"     -> {"build", "gradle"}
      [] s = "go.mod"           -> {"go", "mod"}
      [] s = "acme/web"         -> {"acme", "web"}
      [] s = "acme/api"         -> {"acme", "api"}
      [] s = ""                 -> {}
      [] OTHER                  -> {s}

\* text.match(new RegExp(`\\b${escapeRegex(l)}\\b`))
textHasWord(summary, l) ==
    \/ l \in SkeletonWords
    \/ \E t \in textTokens(summary) : l \in WholeWords(t)

\* The score heuristicLabels gives one label, in hundredths: Math.min(1, score)
heuristicScore(summary, label) ==
    LET l == toLowerCase(label)
        any(kws) == \E kw \in kws : textIncludes(summary, kw)
        score ==
            (IF textIncludes(summary, l) THEN 70 ELSE 0)
          + (IF l = "node" /\ any({"npm", "node", "package.json", "express", "react"})
             THEN 90 ELSE 0)
          + (IF l = "python" /\ any({"python", "requirements.txt", "pip", "flask",
                                     "django", "fastapi"})
             THEN 90 ELSE 0)
          + (IF l = "java" /\ any({"maven", "gradle", "pom.xml", "spring-boot"})
             THEN 90 ELSE 0)
          + (IF l = "docker" /\ any({"dockerfile", "container", "docker"}) THEN 95 ELSE 0)
          + (IF l = "monorepo" /\ any({"packages/"}) THEN 80 ELSE 0)
          + (IF textHasWord(summary, l) THEN 5 ELSE 0)
    IN  IF score > 100 THEN 100 ELSE score

\* heuristicLabels(summaryText, candidateLabels, err); err is "" when none is given
heuristicLabels(summaryText, candidateLabels, err) ==
    LET labelScores ==
            sortDesc([ i \in DOMAIN candidateLabels |->
                         [label |-> candidateLabels[i],
                          score |-> heuristicScore(summaryText, candidateLabels[i])] ],
                     "score")
    IN  [ model  |-> "heuristic-fallback",
          labels |-> Some([ i \in DOMAIN labelScores |-> labelScores[i].label ]),
          scores |-> Some([ i \in DOMAIN labelScores |-> labelScores[i].score ]),
          raw    |-> [error |-> IF err # "" THEN err ELSE "hf-missing"] ]

\* The reply of hf.zeroShotClassification: an array of {label, score}, an object
\* with labels and scores, or an object with neither.
Reply(shape, items, labels, scores) ==
    [shape |-> shape, items |-> items, labels |-> labels, scores |-> scores]

\* classifyZeroShot, lines 62-74: out = { model, labels, scores, raw: data }
zeroShotOut(model, data) ==
    LET asArray  == data.shape = "array" /\ data.items # <<>>
        asObject == data.shape = "object" /\ IsSome(data.labels) /\ IsSome(data.scores)
    IN  [ model  |-> model,
          labels |-> IF asArray
                     THEN Some([ i \in DOMAIN data.items |-> data.items[i].label ])
                     ELSE IF asObject THEN data.labels ELSE Some(<<>>),
          scores |-> IF asArray
                     THEN Some([ i \in DOMAIN data.items |-> data.items[i].score ])
                     ELSE IF asObject THEN data.scores ELSE Some(<<>>),
          raw    |-> data ]

\* What the inference service may answer, and the errors its client may throw.
HFReplies ==
    { Reply("array", <<[label |-> "node", score |-> 90], [label |-> "docker", score |-> 40]>>,
            None, None),
      Reply("object", <<>>, Some(<<"node", "docker">>), Some(<<90>>)),
      Reply("object", <<>>, None, None) }

HFErrors == {"Error: 401 Unauthorized", "TypeError: fetch failed"}

-----------------------------------------------------------------------------
(* The runs: who starts them, what they keep, what they share on disk *)

\* The runs in flight, the repositories they are for, and their drivers: the
\* webhook handler (handleRepo) or the command-line entry point (index.js).
Runs == {"run1", "run2"}

RepoNames == {"acme/web", "acme/api"}

Callers == {"handleRepo", "index"}

IdleRun ==
    [ pc |-> "idle",           \* where the run stands
      repo |-> "",             \* the repository it analyses
      caller |-> "",           \* which driver started it
      features |-> None,       \* what classify read from outputs/feature.json
      request |-> None,        \* the request classifyZeroShot was called with
      result |-> None,         \* the result classifyZeroShot is about to store
      called |-> FALSE,        \* hf.zeroShotClassification was called
      callFailed |-> FALSE,    \* hf.zeroShotClassification rejected
      zeroShot |-> "none",     \* classifyZeroShot: none, pending, returned, threw
      hf |-> None,             \* what classifyZeroShot returned
      values |-> None,         \* the parameter document classify built
      badInput |-> FALSE,      \* classify could not read or parse its input
      classify |-> "none",     \* classify: none, pending, resolved, rejected
      rendered |-> None ]      \* the parameter document render read

\* outputs/feature.json and outputs/values.json: absent, or a document with
\* (history) the run that wrote it
NoFiles == [feature |-> None, values |-> None]

FileOf(doc, writer) == Some([doc |-> doc, writer |-> writer])

\* What analyzeRepo may write for a repository.
AnalyzerDocuments(repo) ==
    { FeaturesDocument(Some(<<manifest>>),
                       [composition |-> None, languages |-> None, dominant_language |-> ""],
                       [build_and_dependency |-> None, frameworks |-> None],
                       None,
                       [containerization_and_deployment |-> None, repo |-> repo,
                        metadata |-> None]) :
        manifest \in {"package.json", "requirements.txt"} }

\* run.js lines 36-46: merge, choose, extract, attach _classifier.  No generative
\* model is configured in the runs, so adaptiveExtract returns the deterministic
\* document at once.
classifyValues(doc, hfRes) ==
    LET det == runRuleDetector(doc)
        m   == mergeRuleAndHF(det.candidates, hfRes)
        ch  == chooseTemplates(m, 50)
        v   == deterministicFallback(doc, chosenTemplatesOf([chosen |-> Chosen("array", "", ch)]))
    IN  Spread(v, [_classifier |-> [rules |-> det.candidates, hf |-> hfRes,
                                    merged |-> m, chosen |-> ch]])

\* render: the template directory is chosen by project_type; there is none for
\* a project_type that is neither node nor python
templateLang(context) ==
    IF context.project_type \in {"js", "node", "nodejs"} THEN "node"
    ELSE IF context.project_type \in {"py", "python"} THEN "python"
    ELSE ""

-----------------------------------------------------------------------------
(* One pipeline: classify() from the parsed features document to its values *)

NoRules == [candidates |-> <<>>, summary |-> EmptyObject, detectedFiles |-> <<>>,
            languages |-> <<>>]

Init ==
    /\ pc = "start"
    /\ env \in Envs
    /\ features \in FeaturesDocuments
    /\ signal = [chosen |-> Chosen("undefined", "", <<>>)]
    /\ rules = NoRules
    /\ hfResult = NoClassifierResult
    /\ merged = <<>>
    /\ chosen = <<>>
    /\ llm = "none"
    /\ values = EmptyObject
    /\ thrown = FALSE
    /\ runs = [r \in Runs |-> IdleRun]
    /\ outputs = NoFiles
    /\ cache = EmptyObject
    /\ written = {}

\* run.js step 1: const { candidates, summary } = runRuleDetector(features)
RuleDetect ==
    /\ pc = "start"
    /\ rules' = runRuleDetector(features)
    /\ pc' = "classify"
    /\ UNCHANGED <<env, features, signal, hfResult, merged, chosen, llm, values, thrown>>
    /\ UNCHANGED rvars

\* run.js step 2: hfResult = await classifyZeroShot(...), whatever it returns
ClassifierReturns ==
    /\ pc = "classify"
    /\ \E res \in ClassifierResults : hfResult' = res
    /\ pc' = "merge"
    /\ UNCHANGED <<env, features, signal, rules, merged, chosen, llm, values, thrown>>
    /\ UNCHANGED rvars

\* run.js step 3: mergeRuleAndHF, chooseTemplates, and the signal built for step 4
MergeSignals ==
    /\ pc = "merge"
    /\ merged' = mergeRuleAndHF(rules.candidates, hfResult)
    /\ chosen' = chooseTemplates(merged', 50)
    /\ signal' = [chosen |-> Chosen("array", "", chosen')]
    /\ pc' = "extract"
    /\ UNCHANGED <<env, features, rules, hfResult, llm, values, thrown>>
    /\ UNCHANGED rvars

\* adaptiveExtract called directly with a signal of the caller's making
DirectCall ==
    /\ pc = "start"
    /\ \E sig \in Signals : signal' = sig
    /\ pc' = "extract"
    /\ UNCHANGED <<env, features, rules, hfResult, merged, chosen, llm, values, thrown>>
    /\ UNCHANGED rvars

\* adaptiveExtract up to its first await: the deterministic document, returned at
\* once when no generative model is configured
ExtractStart ==
    /\ pc = "extract"
    /\ IF paramClientConfigured(env)
       THEN /\ pc' = "generate"
            /\ UNCHANGED <<llm, values>>
       ELSE /\ pc' = "done"
            /\ llm' = "unconfigured"
            /\ values' = deterministicFallback(features, chosenTemplatesOf(signal))
    /\ UNCHANGED <<env, features, signal, rules, hfResult, merged, chosen, thrown>>
    /\ UNCHANGED rvars

\* hf.textGeneration rejects, replies without a JSON object, or with one that
\* JSON.parse refuses: the catch block decides the outcome
GenerateFails ==
    /\ pc = "generate"
    /\ \E how \in {"threw", "no-json", "bad-json"} : llm' = how
    /\ LET out == extractionFailed(deterministicFallback(features, chosenTemplatesOf(signal)))
       IN  /\ thrown' = out.thrown
           /\ values' = IF out.thrown THEN values ELSE out.value
    /\ pc' = "done"
    /\ UNCHANGED <<env, features, signal, rules, hfResult, merged, chosen>>
    /\ UNCHANGED rvars

\* the reply parses: the override is merged over the deterministic document
GenerateOverrides ==
    /\ pc = "generate"
    /\ \E parsed \in Overrides :
           values' = overrideMerge(deterministicFallback(features, chosenTemplatesOf(signal)),
                                   parsed)
    /\ llm' = "parsed"
    /\ pc' = "done"
    /\ UNCHANGED <<env, features, signal, rules, hfResult, merged, chosen, thrown>>
    /\ UNCHANGED rvars

Next ==
    \/ RuleDetect
    \/ ClassifierReturns
    \/ MergeSignals
    \/ DirectCall
    \/ ExtractStart
    \/ GenerateFails
    \/ GenerateOverrides

Spec == Init /\ [][Next]_vars

-----------------------------------------------------------------------------
(* Concurrent runs: handleRepo / index.js driving analyzeRepo, classify and  *)
(* render through the fixed paths outputs/feature.json, outputs/values.json  *)
(* and the classifier cache.  One action per stretch between two awaits.     *)

\* The environments of the runs: no generative model configured.
RunEnvs == { e \in Envs : ~e.HF_PARAM_MODEL }

\* the pipeline's variables, held still while the runs are observed
PipelineIdle ==
    /\ pc = "off"
    /\ features = EmptyObject
    /\ signal = [chosen |-> Chosen("undefined", "", <<>>)]
    /\ rules = NoRules
    /\ hfResult = NoClassifierResult
    /\ merged = <<>>
    /\ chosen = <<>>
    /\ llm = "none"
    /\ values = EmptyObject
    /\ thrown = FALSE

InitRuns ==
    /\ PipelineIdle
    /\ env \in RunEnvs
    /\ runs = [r \in Runs |-> IdleRun]
    /\ outputs = NoFiles
    /\ cache = EmptyObject
    /\ written = {}

\* a webhook event reaches handleRepo, or index.js is started
RunStart(r) ==
    /\ runs[r].pc = "idle"
    /\ \E repo \in RepoNames, caller \in Callers :
           runs' = [runs EXCEPT ![r] = [@ EXCEPT !.pc = "analyze", !.repo = repo,
                                                  !.caller = caller]]
    /\ UNCHANGED <<outputs, cache, written, pvars>>

\* analyzeRepo ends: fs.writeFileSync(outPath, JSON.stringify(result))
AnalyzeRepo(r) ==
    /\ runs[r].pc = "analyze"
    /\ \E doc \in AnalyzerDocuments(runs[r].repo) :
           outputs' = [outputs EXCEPT !.feature = FileOf(doc, r)]
    /\ runs' = [runs EXCEPT ![r] = [@ EXCEPT !.pc = "read_features", !.classify = "pending"]]
    /\ UNCHANGED <<cache, written, pvars>>

\* analyzeRepo throws (a request to GitHub fails) before it writes: handleRepo
\* rejects; index.js logs the error and goes on to classify
AnalyzeFails(r) ==
    /\ runs[r].pc = "analyze"
    /\ runs' = [runs EXCEPT ![r] =
                   IF @.caller = "index"
                   THEN [@ EXCEPT !.pc = "read_features", !.classify = "pending"]
                   ELSE [@ EXCEPT !.pc = "failed"]]
    /\ UNCHANGED <<outputs, cache, written, pvars>>

\* classify, lines 15-35, and classifyZeroShot up to its await _readCache: read
\* and parse the features, run the rules, build the request.  A missing file
\* takes classify to its catch block, which logs and returns.
ReadFeatures(r) ==
    /\ runs[r].pc = "read_features"
    /\ runs' = [runs EXCEPT ![r] =
           IF ~IsSome(outputs.feature)
           THEN [@ EXCEPT !.pc = "render", !.badInput = TRUE, !.classify = "resolved"]
           ELSE LET det == runRuleDetector(Get(outputs.feature).doc)
                IN  [@ EXCEPT !.pc = "cache_read",
                              !.features = outputs.feature,
                              !.zeroShot = "pending",
                              !.request = Some(Request(det.summary,
                                                       candidateLabelsOf(det.candidates),
                                                       DefaultModel))]]
    /\ UNCHANGED <<outputs, cache, written, pvars>>

\* classify from the classifier's result to its await fs.writeFile
classified(run, hfRes) ==
    [run EXCEPT !.pc = "write_values", !.zeroShot = "returned", !.hf = Some(hfRes),
                !.result = None,
                !.values = Some(classifyValues(Get(run.features).doc, hfRes))]

\* A cache that never finds anything.
_readCache_Miss(k) == None

\* _readCache: the parsed content of .cache/<k>.json, or null when there is none.
\* What JSON.stringify wrote is what JSON.parse returns: an undefined or NaN
\* element comes back as null, and both are None here.
_readCache(k) == IF k \in DOMAIN cache THEN Some(cache[k]) ELSE None

\* classifyZeroShot, lines 45-56: the cached result if there is one; without a
\* token the heuristic result, to be stored; else the call to the service
CacheRead(r) ==
    /\ runs[r].pc = "cache_read"
    /\ LET req == Get(runs[r].request)
           cached == _readCache(_hash(req))
       IN  runs' = [runs EXCEPT ![r] =
               IF IsSome(cached)
               THEN classified(@, Get(cached))
               ELSE IF ~env.HF_TOKEN
               THEN [@ EXCEPT !.pc = "cache_write",
                              !.result = Some(heuristicLabels(req.summaryText,
                                                              req.candidateLabels, ""))]
               ELSE [@ EXCEPT !.pc = "hf_wait", !.called = TRUE]]
    /\ UNCHANGED <<outputs, cache, written, pvars>>

\* the service answers: lines 62-76
HFResponds(r) ==
    /\ runs[r].pc = "hf_wait"
    /\ \E data \in HFReplies :
           runs' = [runs EXCEPT ![r] =
                       [@ EXCEPT !.pc = "cache_write",
                                 !.result = Some(zeroShotOut(Get(runs[r].request).model, data))]]
    /\ UNCHANGED <<outputs, cache, written, pvars>>

\* the call rejects: the catch block, lines 78-82
HFFails(r) ==
    /\ runs[r].pc = "hf_wait"
    /\ \E err \in HFErrors :
           runs' = [runs EXCEPT ![r] =
                       [@ EXCEPT !.pc = "cache_write", !.callFailed = TRUE,
                                 !.result = Some(heuristicLabels(
                                                Get(runs[r].request).summaryText,
                                                Get(runs[r].request).candidateLabels,
                                                err))]]
    /\ UNCHANGED <<outputs, cache, written, pvars>>

\* _writeCache stores the result; classifyZeroShot returns it and classify goes on
CacheWrite(r) ==
    /\ runs[r].pc = "cache_write"
    /\ LET key == _hash(Get(runs[r].request))
           out == Get(runs[r].result)
       IN  /\ cache' = Spread(cache, [k \in {key} |-> out])
           /\ written' = written \cup {[key |-> key, value |-> out]}
           /\ runs' = [runs EXCEPT ![r] = classified(@, out)]
    /\ UNCHANGED <<outputs, pvars>>

\* fs.mkdir or fs.writeFile of _writeCache rejects (disk full, read-only or
\* missing permissions): nothing in classifyZeroShot catches it, classify's
\* catch block logs it and returns
CacheWriteFails(r) ==
    /\ runs[r].pc = "cache_write"
    /\ runs' = [runs EXCEPT ![r] = [@ EXCEPT !.pc = "render", !.zeroShot = "threw",
                                            !.result = None, !.classify = "resolved"]]
    /\ UNCHANGED <<outputs, cache, written, pvars>>

\* classify, line 48: fs.writeFile(outputPath, JSON.stringify(values))
WriteValues(r) ==
    /\ runs[r].pc = "write_values"
    /\ outputs' = [outputs EXCEPT !.values = FileOf(Get(runs[r].values), r)]
    /\ runs' = [runs EXCEPT ![r] = [@ EXCEPT !.pc = "render", !.classify = "resolved"]]
    /\ UNCHANGED <<cache, written, pvars>>

\* render reads and parses outputs/values.json and the template of its
\* project_type; a missing file rejects: handleRepo rejects, index.js logs
Render(r) ==
    /\ runs[r].pc = "render"
    /\ runs' = [runs EXCEPT ![r] =
           IF IsSome(outputs.values) /\ templateLang(Get(outputs.values).doc) # ""
           THEN [@ EXCEPT !.pc = IF runs[r].caller = "index" THEN "done" ELSE "pr",
                          !.rendered = outputs.values]
           ELSE [@ EXCEPT !.pc = IF runs[r].caller = "index" THEN "done" ELSE "failed"]]
    /\ UNCHANGED <<outputs, cache, written, pvars>>

\* handleRepo: createPrForWorkflow, whose failure is logged
CreatePr(r) ==
    /\ runs[r].pc = "pr"
    /\ runs' = [runs EXCEPT ![r] = [@ EXCEPT !.pc = "done"]]
    /\ UNCHANGED <<outputs, cache, written, pvars>>

\* the steps of one run
RunStep(r) ==
    \/ RunStart(r)
    \/ AnalyzeRepo(r)
    \/ AnalyzeFails(r)
    \/ ReadFeatures(r)
    \/ CacheRead(r)
    \/ HFResponds(r)
    \/ HFFails(r)
    \/ CacheWrite(r)
    \/ CacheWriteFails(r)
    \/ WriteValues(r)
    \/ Render(r)
    \/ CreatePr(r)

NextRuns == \E r \in Runs : RunStep(r)

SpecRuns == InitRuns /\ [][NextRuns]_vars

\* One run on its own.
NextLive == RunStep("run1")

\* What the runtime guarantees: a continuation that is ready runs, and an
\* operation on the local file system completes.  Nothing makes the inference
\* service or GitHub answer.
FileStep(r) == WriteValues(r) \/ Render(r)

\* ReadFeatures, CacheRead and CacheWrite are each enabled exactly at one
\* position and leave it, so their weak fairness is that the run does not stay
\* at that position for ever.
ComputePositions == {"read_features", "cache_read", "cache_write"}

SpecLive ==
    /\ InitRuns
    /\ [][NextLive]_vars
    /\ WF_vars(FileStep("run1"))
    /\ \A p \in ComputePositions : []<>(runs["run1"].pc # p)

-----------------------------------------------------------------------------
(* Claims about one pipeline *)

\* the first candidate of highest confidence: sortedByRule[0] of a stable sort
TopRule(cands) ==
    cands[CHOOSE i \in DOMAIN cands :
            /\ \A j \in DOMAIN cands : cands[j].confidence <= cands[i].confidence
            /\ \A j \in 1..(i - 1) : cands[j].confidence < cands[i].confidence]

Merged == pc \in {"extract", "generate", "done"} /\ rules # NoRules

\* C1: whenever the best rule candidate has confidence >= 0.97, chooseTemplates
\* returns exactly [its label], whatever the classifier returned.
C1_RuleDominantChoice ==
    (Merged /\ TopRule(rules.candidates).confidence >= 97)
        => chosen = <<TopRule(rules.candidates).label>>

\* C1 witness: a classifier result ranks another label first with score 1 and the
\* rule-dominant label is still the one chosen.
C1_Witness ==
    /\ Merged
    /\ TopRule(rules.candidates).confidence >= 97
    /\ TopRule(rules.candidates).label = "docker"
    /\ hfResult.labels = Some(<<"node">>) /\ hfResult.scores = Some(<<100>>)
    /\ Includes([i \in DOMAIN rules.candidates |-> rules.candidates[i].label], "node")
    /\ chosen = <<"docker">>

\* C2: with detected files package.json and Dockerfile the chain chooses "node" as
\* the primary label, and adaptiveExtract returns container.enabled = true with a
\* non-empty secrets_required.
C2_ScenarioB ==
    (Merged /\ features.detectedFiles = Some(<<"package.json", "Dockerfile">>))
        => /\ chosen[1] = "node"
           /\ (pc = "done" /\ llm # "parsed")
                 => (values.container.enabled /\ values.secrets_required # <<>>)

EmittedFor(label) ==
    { rawCandidates(features)[i].confidence :
        i \in { j \in DOMAIN rawCandidates(features) : rawCandidates(features)[j].label = label } }

\* C4: runRuleDetector returns no two candidates with the same label, and each
\* candidate's confidence is the maximum over the raw emissions of its label.
C4_Deduplicated ==
    (pc = "classify") =>
        /\ \A i, j \in DOMAIN rules.candidates :
               rules.candidates[i].label = rules.candidates[j].label => i = j
        /\ \A i \in DOMAIN rules.candidates :
               /\ rules.candidates[i].confidence \in EmittedFor(rules.candidates[i].label)
               /\ \A c \in EmittedFor(rules.candidates[i].label) :
                      c <= rules.candidates[i].confidence

\* C4 witness: a label was emitted twice, the later emission the stronger one.
C4_Witness ==
    /\ pc = "classify"
    /\ \E i, j \in DOMAIN rawCandidates(features) :
           /\ i < j
           /\ rawCandidates(features)[i].label = rawCandidates(features)[j].label
           /\ rawCandidates(features)[i].confidence < rawCandidates(features)[j].confidence

\* the ecosystems whose manifest is among the detected files
ManifestEcosystems(f) ==
    { e \in {"node", "python", "java"} :
        CASE e = "node"   -> Includes(detectedFilesOf(f), "package.json")
          [] e = "python" -> Includes(detectedFilesOf(f), "requirements.txt")
          [] e = "java"   -> \/ Includes(detectedFilesOf(f), "pom.xml")
                             \/ Includes(detectedFilesOf(f), "build.gradle")
                             \/ Includes(detectedFilesOf(f), "build.gradle.kts") }

\* C5: when the manifest of exactly one ecosystem is present, the first candidate
\* carries that ecosystem's label with confidence >= 0.9, whatever else the
\* document holds.
C5_UniqueManifestWins ==
    (pc = "classify" /\ Cardinality(ManifestEcosystems(features)) = 1)
        => /\ rules.candidates[1].label \in ManifestEcosystems(features)
           /\ rules.candidates[1].confidence >= 90

-----------------------------------------------------------------------------
(* Claims about the runs and the classifier cache *)

\* C6: with the classifier credential configured, a run that waits for the
\* external classification call never waits forever: even when the service does
\* not answer, classifyZeroShot comes back and the run leaves the call.
C6_NeverWaitsForever ==
    \A r \in Runs : (runs[r].pc = "hf_wait") ~> (runs[r].pc # "hf_wait")

\* C7: when the runs in flight were started by handleRepo for different
\* repositories, the features a run's classify read were written by that run's
\* analyzeRepo, and the parameter document its render read was written by that
\* run's classify.
C7_OwnDocuments ==
    \A r \in Runs :
        ( /\ runs[r].caller = "handleRepo"
          /\ \A q \in Runs \ {r} : runs[q].caller \in {"", "handleRepo"}
                                   /\ runs[q].repo # runs[r].repo )
        => /\ IsSome(runs[r].features) => Get(runs[r].features).writer = r
           /\ IsSome(runs[r].rendered) => Get(runs[r].rendered).writer = r

\* C8: a run whose classify could not read or parse its features document does
\* not go on to render a parameter document: its caller was told of the failure.
C8_BadInputSurfaced ==
    \A r \in Runs : runs[r].badInput => ~IsSome(runs[r].rendered)

\* C9: when the external classification call failed, classifyZeroShot does not
\* throw to its caller, and what it returns is the heuristic fallback whose
\* diagnostic payload records the failure.
C9_FailureNeverPropagates ==
    \A r \in Runs :
        runs[r].callFailed =>
            /\ runs[r].zeroShot # "threw"
            /\ runs[r].zeroShot = "returned" =>
                   /\ Get(runs[r].hf).model = "heuristic-fallback"
                   /\ Get(runs[r].hf).raw.error \in HFErrors

\* C10: the classifier cache holds one value per key: any two writes of one key
\* wrote the same value.
C10_OneValuePerKey ==
    \A p \in written, q \in written : p.key = q.key => p.value = q.value

\* a call of classifyZeroShot with the request of run r has returned
Completed(req) ==
    \E q \in Runs : runs[q].zeroShot = "returned" /\ runs[q].request = req

C12_EqualLengths ==
    \A r \in Runs :
        IsSome(runs[r].hf) =>
            Len(Get(Get(runs[r].hf).labels)) = Len(Get(Get(runs[r].hf).scores))

\* C13: every entry of the merged list has 0 <= combined <= 1 and its combined
\* score is rule*w + hf*(1-w) for a weight w in [0,1] (tenths; combined is in
\* thousandths); all confidences and scores of the model lie in [0,1].
C13_ConvexCombination ==
    Merged =>
        \A i \in DOMAIN merged :
            /\ 0 <= merged[i].combined /\ merged[i].combined <= 1000
            /\ \E w \in 0..10 :
                   merged[i].combined = w * merged[i].rule + (10 - w) * merged[i].hf

\* C13 witness: an entry merged from a rule confidence and a larger classifier
\* score, outside the rule-dominant branch.
C13_Witness ==
    /\ Merged
    /\ \E i \in DOMAIN merged :
           /\ merged[i].rule > 0 /\ merged[i].hf > merged[i].rule
           /\ merged[i].reasons # <<"rule-dominant">>
           /\ merged[i].combined = 8 * merged[i].rule + 2 * merged[i].hf

\* the labels of the rule candidates
CandidateLabels == { rules.candidates[i].label : i \in DOMAIN rules.candidates }

\* C14: when the detected files are requirements.txt and pom.xml, and there is no
\* package.json, the rule engine returns a "python" and a "java" candidate and
\* the primary label chosen is "python", the one of higher rule confidence, for
\* every classifier result.
C14_ScenarioC ==
    ( /\ rules # NoRules
      /\ features.detectedFiles = Some(<<"requirements.txt", "pom.xml">>)
      /\ ~Includes(detectedFilesOf(features), "package.json") )
    => /\ {"python", "java"} \subseteq CandidateLabels
       /\ Merged => chosen[1] = "python"

\* a features document with no recognizable marker
NoMarker(f) ==
    /\ detectedFilesOf(f) = <<>>
    /\ languagesOf(f) = <<>>
    /\ dominantOf(f) = ""
    /\ frameworksOf(f) = <<>>
    /\ ~hasDockerfileOf(f)
    /\ Field(f.derived, "recommended_templates", <<>>) = <<>>

\* the rule engine returned exactly one candidate, "generic" at 0.3
OnlyGeneric ==
    /\ Len(rules.candidates) = 1
    /\ rules.candidates[1].label = "generic"
    /\ rules.candidates[1].confidence = 30

\* C15 as stated: for a document with no marker the rule engine returns exactly
\* one candidate, "generic" at 0.3, and adaptiveExtract returns the generic base
\* document unchanged.
C15_ScenarioD_AsStated ==
    (rules # NoRules /\ NoMarker(features))
        => /\ OnlyGeneric
           /\ (pc = "done" /\ ~thrown) => values = baseDocument(features)

\* C15, amended: for a document with no marker the rule engine returns exactly
\* one candidate, "generic" at 0.3, and "generic" is chosen; adaptiveExtract
\* returns the generic base document unchanged (project_type "generic", empty
\* commands, container and deployment disabled) unless the generative model's
\* reply parsed, and then it returns that base with the reply merged over it.
C15_ScenarioD ==
    (rules # NoRules /\ NoMarker(features))
        => /\ OnlyGeneric
           /\ Merged => chosen = <<"generic">>
           /\ (pc = "done" /\ llm # "parsed") =>
                  /\ values = baseDocument(features)
                  /\ values.project_type = "generic"
                  /\ values.lint_command = "" /\ values.test_command = ""
                  /\ values.build_command = ""
                  /\ ~values.container.enabled /\ ~values.deployment.enabled
           /\ (pc = "done" /\ llm = "parsed") =>
                  \E parsed \in Overrides :
                      values = overrideMerge(baseDocument(features), parsed)

\* C15 witness: no marker, the classifier ranks "node" first with score 1, and
\* the document returned is still the generic base.
C15_Witness ==
    /\ pc = "done" /\ rules # NoRules /\ NoMarker(features)
    /\ hfResult.labels = Some(<<"node">>) /\ hfResult.scores = Some(<<100>>)
    /\ llm = "threw"
    /\ values = baseDocument(features)

\* the threshold arguments chooseTemplates is tried with, in hundredths
Thresholds == {0, 50, 100}

\* C16: chooseTemplates returns ["generic"] for an empty or missing merged list
\* and otherwise exactly one label, that of an entry of highest combined score,
\* whatever the threshold; it is what the pipeline chose.
C16_SinglePrimary ==
    \A t \in Thresholds :
        LET c == chooseTemplates(merged, t)
        IN  /\ c # <<>>
            /\ merged = <<>> => c = <<"generic">>
            /\ merged # <<>> =>
                   /\ Len(c) = 1
                   /\ \E i \in DOMAIN merged :
                          /\ merged[i].label = c[1]
                          /\ \A j \in DOMAIN merged : merged[j].combined <= merged[i].combined
            /\ Merged => chosen = c

\* C16 witness: two merged entries both reach the default threshold and only the
\* first is chosen.
C16_Witness ==
    /\ Merged
    /\ Len(merged) >= 2
    /\ merged[2].combined >= 500
    /\ merged[1].combined > merged[2].combined
    /\ chosen = <<merged[1].label>>

\* the document deterministicFallback produces for the inputs of the current call
FallbackDocument == deterministicFallback(features, chosenTemplatesOf(signal))

\* C17: when the generative call throws, returns text with no JSON object or
\* text whose JSON cannot be parsed, adaptiveExtract returns exactly the
\* deterministicFallback document for the same inputs and does not throw.
C17_FailedOverrideIsFallback ==
    (pc = "done" /\ llm \in {"threw", "no-json", "bad-json"})
        => (~thrown /\ values = FallbackDocument)

\* C17 witness: after classify chose node, the generative reply could not be
\* parsed and the node fallback document was returned.
C17_Witness ==
    /\ pc = "done" /\ llm = "bad-json" /\ ~thrown
    /\ Merged
    /\ chosen = <<"node">>
    /\ values = FallbackDocument
    /\ values.project_type = "node"

\* C18: the generative model is called only when both HF_TOKEN and
\* HF_PARAM_MODEL are configured; when either is absent no call is made and the
\* returned document equals the deterministicFallback result.
C18_CallOnlyWhenConfigured ==
    /\ (pc = "generate" \/ llm \in {"threw", "no-json", "bad-json", "parsed"})
           => (env.HF_TOKEN /\ env.HF_PARAM_MODEL)
    /\ (pc = "done" /\ ~(env.HF_TOKEN /\ env.HF_PARAM_MODEL))
           => (llm = "unconfigured" /\ ~thrown /\ values = FallbackDocument)

\* C18 witness: a token without a model identifier: no call, the fallback
\* document returned.
C18_Witness ==
    /\ pc = "done"
    /\ env.HF_TOKEN /\ ~env.HF_PARAM_MODEL
    /\ llm = "unconfigured"
    /\ values = FallbackDocument
    /\ ParameterFields \subseteq DOMAIN values

\* the labels of the classifier result handed to the merge
ClassifierLabels ==
    { OrElse(hfResult.labels, <<>>)[i] : i \in DOMAIN OrElse(hfResult.labels, <<>>) }

\* C19: below the rule-dominant cutoff, a label only the classifier proposed has
\* its score weighted at 0.7 to 0.8 in combined, and a label of rule confidence
\* >= 0.9 with no classifier entry has its confidence weighted at 0.7 to 0.8
\* (combined is in thousandths, rule and hf in hundredths).
C19_InverseWeights ==
    (Merged /\ TopRule(rules.candidates).confidence < 97) =>
        \A i \in DOMAIN merged :
            /\ (merged[i].label \notin CandidateLabels /\ merged[i].label \in ClassifierLabels)
                   => /\ 7 * merged[i].hf <= merged[i].combined
                      /\ merged[i].combined <= 8 * merged[i].hf
            /\ (merged[i].rule >= 90 /\ merged[i].label \notin ClassifierLabels)
                   => /\ 7 * merged[i].rule <= merged[i].combined
                      /\ merged[i].combined <= 8 * merged[i].rule

\* C20: when the top rule confidence is >= 0.97 the merged list has exactly one
\* entry per rule candidate and none for a label only the classifier proposed;
\* each entry has combined equal to its rule confidence, hf 0 and reasons
\* ["rule-dominant"], and the entries descend in combined.
C20_RuleDominantList ==
    (Merged /\ TopRule(rules.candidates).confidence >= 97) =>
        /\ Len(merged) = Len(rules.candidates)
        /\ \A k \in DOMAIN rules.candidates :
               Cardinality({ i \in DOMAIN merged :
                               /\ merged[i].label = rules.candidates[k].label
                               /\ merged[i].rule = rules.candidates[k].confidence }) = 1
        /\ \A i \in DOMAIN merged :
               /\ merged[i].label \in CandidateLabels
               /\ merged[i].combined = 10 * merged[i].rule
               /\ merged[i].hf = 0
               /\ merged[i].reasons = <<"rule-dominant">>
        /\ \A i \in 1..(Len(merged) - 1) : merged[i].combined >= merged[i + 1].combined

\* C20 witness: the best rule sits exactly on the cutoff, the classifier scored
\* a label no rule proposed, and the merged list carries the rule candidates only.
C20_Witness ==
    /\ Merged
    /\ TopRule(rules.candidates).confidence = 97
    /\ Len(rules.candidates) >= 2
    /\ \E i \in DOMAIN OrElse(hfResult.labels, <<>>) :
           /\ OrElse(hfResult.labels, <<>>)[i] \notin CandidateLabels
           /\ i \in DOMAIN OrElse(hfResult.scores, <<>>)
           /\ OrElse(hfResult.scores, <<>>)[i] > 0
    /\ Len(merged) = Len(rules.candidates)
    /\ \A i \in DOMAIN merged : merged[i].reasons = <<"rule-dominant">>

\* the language ecosystems a chosen label can name
LanguageLabels == {"node", "python", "java"}

\* the call of adaptiveExtract returned the deterministic document
ReturnedDeterministic == pc = "done" /\ ~thrown /\ llm # "parsed"

\* C21: when the single chosen label is node, python or java, the returned
\* project_type equals that label, whatever the files and the dominant language
\* suggest.
C21_LabelDecidesEcosystem ==
    ( /\ ReturnedDeterministic
      /\ Len(chosenTemplatesOf(signal)) = 1
      /\ chosenTemplatesOf(signal)[1] \in LanguageLabels )
    => values.project_type = chosenTemplatesOf(signal)[1]

\* the language ecosystems detected for the current call: named by a chosen
\* label, by a manifest among the detected files, or by the dominant language
DetectedEcosystems ==
    { l \in LanguageLabels :
        \/ Includes(chosenTemplatesOf(signal), l)
        \/ l = "node" /\ ( \/ StrIncludes(dominantOf(features), "javascript")
                           \/ Includes(detectedFilesOf(features), "package.json") )
        \/ l = "python" /\ ( \/ StrIncludes(dominantOf(features), "python")
                             \/ Includes(detectedFilesOf(features), "requirements.txt") )
        \/ l = "java" /\ ( \/ Includes(detectedFilesOf(features), "pom.xml")
                           \/ Includes(detectedFilesOf(features), "build.gradle")
                           \/ Includes(detectedFilesOf(features), "build.gradle.kts") ) }

\* a docker label was chosen or the features carry a container indicator
DockerEvidence ==
    Includes(chosenTemplatesOf(signal), "docker") \/ hasDockerfileOf(features)

\* C22: project_type is "docker" only when docker is among the chosen labels
\* and no language ecosystem is detected; with a language ecosystem and Docker
\* evidence together, project_type is a detected language, never "docker".
C22_DockerOnlyShortCircuit ==
    ReturnedDeterministic =>
        /\ values.project_type = "docker"
               => (Includes(chosenTemplatesOf(signal), "docker") /\ DetectedEcosystems = {})
        /\ (DockerEvidence /\ DetectedEcosystems # {})
               => values.project_type \in DetectedEcosystems

\* C22 witness: docker was chosen next to a language ecosystem and the returned
\* document is the language's.
C22_Witness ==
    /\ ReturnedDeterministic
    /\ Includes(chosenTemplatesOf(signal), "docker")
    /\ hasDockerfileOf(features)
    /\ DetectedEcosystems # {}
    /\ values.project_type \in DetectedEcosystems

\* C23: the project_type follows the precedence node, python, java over the
\* plausible ecosystems, and is "docker" (docker chosen) or "generic" when none
\* is plausible.
C23_FixedPrecedence ==
    ReturnedDeterministic =>
        values.project_type =
            ( IF "node" \in DetectedEcosystems THEN "node"
              ELSE IF "python" \in DetectedEcosystems THEN "python"
              ELSE IF "java" \in DetectedEcosystems THEN "java"
              ELSE IF Includes(chosenTemplatesOf(signal), "docker") THEN "docker"
              ELSE "generic" )

\* C23 witness: node, python and java are all plausible and the document is
\* the node one.
C23_Witness ==
    /\ ReturnedDeterministic
    /\ DetectedEcosystems = LanguageLabels
    /\ values.project_type = "node"
    /\ values.package_manager = Some("npm")

\* C24: whenever the features carry a container indicator, the returned
\* deterministic document has container.enabled = true and a non-empty
\* registry, in every ecosystem branch.
C24_ContainerEnabled ==
    (ReturnedDeterministic /\ hasDockerfileOf(features))
        => (values.container.enabled /\ values.container.registry # "")

\* containerization_and_deployment.registry_reference, "" when there is none
registryReference ==
    IF IsSome(features.containerization_and_deployment)
    THEN Get(features.containerization_and_deployment).registry_reference
    ELSE ""

\* C25: a returned document with container.enabled = true requires the secrets
\* of its registry (GITHUB_TOKEN for ghcr.io, DOCKER_USERNAME and DOCKER_PASSWORD
\* for docker.io), and its registry is the one the features reference, if any.
C25_RegistrySecrets ==
    (ReturnedDeterministic /\ values.container.enabled) =>
        /\ values.container.registry = "ghcr.io"
               => Includes(values.secrets_required, "GITHUB_TOKEN")
        /\ values.container.registry = "docker.io"
               => /\ Includes(values.secrets_required, "DOCKER_USERNAME")
                  /\ Includes(values.secrets_required, "DOCKER_PASSWORD")
        /\ registryReference # "" => values.container.registry = registryReference

\* the static-host configuration files the analyzer reports as deployment configs
StaticHostConfigs == {"vercel.json", "netlify.toml"}

\* frontend/static-site indicators: HTML leads the language shares, or a
\* static-host configuration file is among the deployment configs
frontendIndicators(f) ==
    \/ (languagesOf(f) # <<>> /\ toLowerCase(languagesOf(f)[1]) = "html")
    \/ /\ IsSome(f.containerization_and_deployment)
       /\ \E i \in DOMAIN Get(f.containerization_and_deployment).deployment_configs :
              Get(f.containerization_and_deployment).deployment_configs[i] \in StaticHostConfigs

\* C26: with frontend/static-site indicators in the features, the returned
\* document has deployment.enabled = true, a non-empty provider, and requires a
\* deploy secret.
C26_FrontendDeployment ==
    (ReturnedDeterministic /\ frontendIndicators(features))
        => /\ values.deployment.enabled
           /\ values.deployment.provider # ""
           /\ values.secrets_required # <<>>

\* the sub-objects adaptiveExtract merges key by key
NestedMerged == {"container", "triggers"}

\* the keys an override names inside one of the nested sub-objects
namedIn(parsed, sub) == IF sub \in DOMAIN parsed THEN DOMAIN parsed[sub] ELSE {}

\* C27: after the override merge, every top-level key the override omits keeps
\* its deterministic value, every key of container and of triggers that the
\* override's sub-object omits keeps its deterministic value (also when the
\* override sets the sub-object to null), and no deterministic key disappears.
C27_OverrideFrame ==
    (pc = "done" /\ llm = "parsed") =>
        /\ \E parsed \in Overrides : values = overrideMerge(FallbackDocument, parsed)
        /\ \A parsed \in Overrides :
               values = overrideMerge(FallbackDocument, parsed) =>
                   /\ DOMAIN FallbackDocument \subseteq DOMAIN values
                   /\ \A k \in (DOMAIN FallbackDocument \ DOMAIN parsed) \ NestedMerged :
                          values[k] = FallbackDocument[k]
                   /\ \A sub \in NestedMerged :
                          /\ DOMAIN FallbackDocument[sub] \subseteq DOMAIN values[sub]
                          /\ \A k \in DOMAIN FallbackDocument[sub] \ namedIn(parsed, sub) :
                                 values[sub][k] = FallbackDocument[sub][k]

\* C27 witness: the override set container and triggers to null and the
\* returned document still carries the deterministic container and triggers.
C27_Witness ==
    /\ pc = "done" /\ llm = "parsed"
    /\ values.deployment = [enabled |-> TRUE]
    /\ values.container = FallbackDocument.container
    /\ values.triggers = FallbackDocument.triggers
    /\ values.container.enabled

\* the fields of a parameter document that hold an object
StructuredFields == {"deployment", "container", "triggers", "matrix", "caching", "paths_filters"}

\* C27 as stated: besides the above, no deterministic field the override does
\* not name disappears or changes, in whichever sub-object it sits.
C27_OverrideFrame_AsStated ==
    (pc = "done" /\ llm = "parsed") =>
        \A parsed \in Overrides :
            values = overrideMerge(FallbackDocument, parsed) =>
                /\ DOMAIN FallbackDocument \subseteq DOMAIN values
                /\ \A k \in DOMAIN FallbackDocument \ DOMAIN parsed :
                       values[k] = FallbackDocument[k]
                /\ \A sub \in StructuredFields \cap DOMAIN parsed :
                       \A k \in DOMAIN FallbackDocument[sub] \ DOMAIN parsed[sub] :
                           /\ k \in DOMAIN values[sub]
                           /\ values[sub][k] = FallbackDocument[sub][k]

-----------------------------------------------------------------------------
(* runRuleDetector on features documents that may be malformed *)

\* An entry that is not a string (the number 42, or null), written as a marked
\* string so that it can sit in a list next to strings.
NotAString == "<not a string>"

\* features documents with a non-string entry in detectedFiles, in frameworks or
\* in derived.recommended_templates, or with a non-string dominant language
MalformedDocuments ==
    { [d EXCEPT !.detectedFiles = Some(OrElse(d.detectedFiles, <<>>) \o <<NotAString>>)] :
          d \in FeaturesDocuments }
    \cup { [d EXCEPT !.dominant_language = NotAString] :
               d \in { x \in FeaturesDocuments : x.composition = None } }
    \cup { [d EXCEPT !.frameworks = Some(<<"express", NotAString>>)] :
               d \in { x \in FeaturesDocuments : x.build_and_dependency = None } }
    \cup { [d EXCEPT !.derived = Some([recommended_templates |-> Some(<<"node-ci", NotAString>>)])] :
               d \in FeaturesDocuments }

\* (comp.dominant_language || features.dominant_language || keys[0] || ""), before
\* .toLowerCase() is called on it
dominantRaw(f) ==
    LET langs == languagesOf(f)
        c == IF IsSome(f.composition) THEN Get(f.composition).dominant_language ELSE ""
    IN  IF c # "" THEN c
        ELSE IF f.dominant_language # "" THEN f.dominant_language
        ELSE IF langs # <<>> THEN langs[1]
        ELSE ""

\* the receivers of .toLowerCase() in runRuleDetector, in the order of the calls
lowerCased(f) ==
    <<dominantRaw(f)>>
    \o OrElse(f.detectedFiles, <<>>)
    \o Field(f.composition, "file_types_count", <<>>)
    \o Field(f.build_and_dependency, "package_managers", <<>>)
    \o ( IF IsSome(f.build_and_dependency) /\ IsSome(Get(f.build_and_dependency).frameworks)
         THEN Get(Get(f.build_and_dependency).frameworks)
         ELSE OrElse(f.frameworks, <<>>) )
    \o ( IF IsSome(f.derived) THEN OrElse(Get(f.derived).recommended_templates, <<>>)
         ELSE <<>> )

\* x.toLowerCase is not a function: a TypeError leaves runRuleDetector
throwsTypeError(f) == Includes(lowerCased(f), NotAString)

InitDetect ==
    /\ pc = "detect"
    /\ features \in FeaturesDocuments \cup MalformedDocuments
    /\ env = [HF_TOKEN |-> FALSE, HF_PARAM_MODEL |-> FALSE]
    /\ signal = [chosen |-> Chosen("undefined", "", <<>>)]
    /\ rules = NoRules
    /\ hfResult = NoClassifierResult
    /\ merged = <<>>
    /\ chosen = <<>>
    /\ llm = "none"
    /\ values = EmptyObject
    /\ thrown = FALSE
    /\ runs = [r \in Runs |-> IdleRun]
    /\ outputs = NoFiles
    /\ cache = EmptyObject
    /\ written = {}

\* runRuleDetector(features) returns { candidates, summary, detectedFiles, languages }
DetectReturns ==
    /\ pc = "detect"
    /\ ~throwsTypeError(features)
    /\ rules' = runRuleDetector(features)
    /\ pc' = "returned"
    /\ UNCHANGED <<env, features, signal, hfResult, merged, chosen, llm, values, thrown>>
    /\ UNCHANGED rvars

\* runRuleDetector(features) throws a TypeError
DetectThrows ==
    /\ pc = "detect"
    /\ throwsTypeError(features)
    /\ thrown' = TRUE
    /\ pc' = "threw"
    /\ UNCHANGED <<env, features, signal, rules, hfResult, merged, chosen, llm, values>>
    /\ UNCHANGED rvars

NextDetect ==
    \/ DetectReturns
    \/ DetectThrows

SpecDetect == InitDetect /\ [][NextDetect]_vars

\* C28: runRuleDetector never throws, whatever optional sub-object or field is
\* missing or malformed, and returns a candidate list and a summary.
C28_DetectorNeverThrows ==
    pc # "detect" =>
        /\ pc = "returned"
        /\ ~thrown
        /\ rules.candidates # <<>>
        /\ "repo" \in DOMAIN rules.summary

\* hasPom || hasGradle
hasJavaDescriptor(f) ==
    \/ Includes(detectedFilesOf(f), "pom.xml")
    \/ Includes(detectedFilesOf(f), "build.gradle")
    \/ Includes(detectedFilesOf(f), "build.gradle.kts")

\* hasPackageJson
hasPackageJsonIn(f) == Includes(detectedFilesOf(f), "package.json")

\* the confidence the build-descriptor rule pushes for java
descriptorConfidence(f) ==
    javaDescriptorRule(hasJavaDescriptor(f), hasPackageJsonIn(f))[1].confidence

\* the documents with a Java build descriptor and no package.json
DescriptorAlone == { g \in FeaturesDocuments : hasJavaDescriptor(g) /\ ~hasPackageJsonIn(g) }

\* the position of a label in the returned candidate list
positionOf(label) == CHOOSE i \in DOMAIN rules.candidates : rules.candidates[i].label = label

\* C29: with a Java build descriptor and package.json together, the descriptor
\* rule pushes java with a strictly lower confidence than without package.json,
\* and the returned java confidence is strictly below the returned node
\* confidence, node ranking above java.
C29_JavaYieldsToNode ==
    (pc = "returned" /\ hasJavaDescriptor(features) /\ hasPackageJsonIn(features)) =>
        /\ \A g \in DescriptorAlone : descriptorConfidence(features) < descriptorConfidence(g)
        /\ {"node", "java"} \subseteq CandidateLabels
        /\ rules.candidates[positionOf("java")].confidence
               < rules.candidates[positionOf("node")].confidence
        /\ positionOf("node") < positionOf("java")

\* C29 witness: pom.xml next to package.json, a Spring framework raising java to
\* 0.9, and node still first.
C29_Witness ==
    /\ pc = "returned"
    /\ hasJavaDescriptor(features) /\ hasPackageJsonIn(features)
    /\ Includes(frameworksOf(features), "spring")
    /\ rules.candidates[positionOf("java")].confidence = 90
    /\ positionOf("node") < positionOf("java")

\* a call of classifyZeroShot for the request has ended after its external call
\* failed
FailedBefore(req) ==
    \E q \in Runs : /\ runs[q].callFailed
                    /\ runs[q].request = req
                    /\ runs[q].zeroShot \in {"returned", "threw"}

\* C30: when the external call failed with a credential configured,
\* classifyZeroShot stores the heuristic fallback under the request's key, and
\* every later call with the same request returns a heuristic-fallback result
\* without calling the service.
C30_FallbackCached ==
    [][ \A r \in Runs :
          /\ ( /\ runs[r].pc = "cache_write"
               /\ runs[r].callFailed
               /\ runs'[r].pc # "cache_write" )
             => /\ _hash(Get(runs[r].request)) \in DOMAIN cache'
                /\ cache'[_hash(Get(runs[r].request))] = Get(runs[r].result)
          /\ ( /\ runs[r].pc = "cache_read"
               /\ FailedBefore(runs[r].request)
               /\ runs'[r].pc # "cache_read" )
             => /\ runs'[r].zeroShot = "returned"
                /\ Get(runs'[r].hf).model = "heuristic-fallback"
                /\ ~runs'[r].called ]_vars

=============================================================================
